---- MODULE Spec2Model ----
(***************************************************************************)
(* Greedy partitioning of HyperLogLog sketches into bins                   *)
(* (scripts/greedy_partitioning_hyperloglog.py).                           *)
(*                                                                         *)
(* Strings are sequences of one-character strings, so that splitting on    *)
(* ".", taking a basename and comparing lexicographically are computed.    *)
(* A sketch is the set of content blocks ("atoms") it summarises; atoms    *)
(* have sizes, merging is set union and the estimate of a sketch is the    *)
(* total size of its atoms.                                                *)
(***************************************************************************)
EXTENDS Integers, Sequences, FiniteSets, TLC

(***************************************************************************)
(* Bounds of the model.                                                    *)
(***************************************************************************)
\* numbins ranges over MinBins..MaxBins (non-positive values included)
MaxBins == 3
\* longest storage key drawn for the name-extraction specification
MaxKeyLen == 5

(***************************************************************************)
(* Strings.                                                                *)
(***************************************************************************)
\* the characters the model uses, in ascending code-point order
Ordered == <<".", "/", "0", "1", "3", "a", "b", "c", "e", "f", "g", "h", "i",
             "k", "l", "m", "n", "p", "q", "s", "t", "w", "x", "z">>

Code(c) == CHOOSE i \in 1..Len(Ordered) : Ordered[i] = c

\* Python's str comparison: lexicographic by code point, a proper prefix first
RECURSIVE StrLess(_, _)
StrLess(s, t) ==
    IF Len(t) = 0 THEN FALSE
    ELSE IF Len(s) = 0 THEN TRUE
    ELSE IF Head(s) = Head(t) THEN StrLess(Tail(s), Tail(t))
    ELSE Code(Head(s)) < Code(Head(t))

\* str.split("."): the maximal dot-free pieces, empty pieces kept
RECURSIVE Split(_)
Split(s) ==
    IF \A i \in 1..Len(s) : s[i] # "." THEN <<s>>
    ELSE LET i == CHOOSE k \in 1..Len(s) :
                      s[k] = "." /\ \A j \in 1..(k - 1) : s[j] # "."
         IN  <<SubSeq(s, 1, i - 1)>> \o Split(SubSeq(s, i + 1, Len(s)))

\* os.path.basename: what follows the last "/"
basename(p) ==
    IF \A i \in 1..Len(p) : p[i] # "/" THEN p
    ELSE LET i == CHOOSE k \in 1..Len(p) :
                      p[k] = "/" /\ \A j \in (k + 1)..Len(p) : p[j] # "/"
         IN  SubSeq(p, i + 1, Len(p))

\* os.path.join(dir, name) for a relative name and a directory without
\* a trailing separator
PathJoin(dir, name) == dir \o <<"/">> \o name

\* the tokens extract_genome_name skips
Reserved ==
    { <<"f", "a">>, <<"f", "q">>, <<"g", "z">>, <<"w">>, <<"3", "1">>,
      <<"s", "p", "a", "c", "i", "n", "g">>, <<"1", "0">>, <<"h", "l", "l">> }

\* a variant that also skips empty parts
IsNamePartNonEmpty(part) == part \notin Reserved /\ part # <<>>

\* whether the loop of extract_genome_name returns on this part
IsNamePart(part) == part \notin Reserved

\* the for loop of extract_genome_name over parts, with its fallback
RECURSIVE FirstNamePart(_, _)
FirstNamePart(parts, filename) ==
    IF Len(parts) = 0 THEN filename
    ELSE IF IsNamePart(Head(parts)) THEN Head(parts)
    ELSE FirstNamePart(Tail(parts), filename)

extract_genome_name(filepath) ==
    LET filename == basename(filepath)
    IN  FirstNamePart(Split(filename), filename)

(***************************************************************************)
(* The sketch directory and the sketching engine.                          *)
(***************************************************************************)
sketches_dir == <<"t", "m", "p", "/", "s", "k", "e", "t", "c", "h", "e", "s">>
bin_dir == <<"t", "m", "p", "/", "b", "i", "n", "s">>

HllExt == <<".", "h", "l", "l">>

\* file names that may be present in the sketch directory
KeyPool ==
    { <<"a">> \o <<".", "f", "a">> \o HllExt,
      <<"a">> \o HllExt,
      <<"b">> \o HllExt,
      <<"f", "a">> \o HllExt,
      <<"c", ".", "w">> }

\* sizes of the content blocks a sketch may cover
AtomSize == <<100, 90, 50, 10>>
Atoms == DOMAIN AtomSize

\* the sketches a file may hold
SketchPool == { {}, {1}, {2}, {3}, {4}, {1, 2} }

\* the content of a file that is no sketch (never read)
Junk == {0}

RECURSIVE SumSizes(_)
SumSizes(S) ==
    IF S = {} THEN 0
    ELSE LET a == CHOOSE x \in S : TRUE
         IN  AtomSize[a] + SumSizes(S \ {a})

\* dashing card: the estimate of a sketch
estimate(sketch) == SumSizes(sketch)

\* a variant in which the bin's sketch is replaced by the item's
MergeKeepsLast(a, b) == b

\* dashing union: the sketch of the union
merge(a, b) == a \cup b

(***************************************************************************)
(* Helpers of greedy_partitioning.                                         *)
(***************************************************************************)
Min(a, b) == IF a < b THEN a ELSE b
Max(a, b) == IF a > b THEN a ELSE b

\* the pattern *.hll of glob.glob
MatchesHll(name) ==
    /\ Len(name) >= Len(HllExt)
    /\ SubSeq(name, Len(name) - Len(HllExt) + 1, Len(name)) = HllExt
    /\ Head(name) # "."

\* glob.glob(os.path.join(sketches_dir, "*.hll")): the matching paths
Glob(dirfiles) ==
    { PathJoin(sketches_dir, name) : name \in { n \in DOMAIN dirfiles : MatchesHll(n) } }

\* sorted(...) of a set of strings
RECURSIVE SortedPaths(_)
SortedPaths(S) ==
    IF S = {} THEN <<>>
    ELSE LET m == CHOOSE x \in S : \A y \in S \ {x} : StrLess(x, y)
         IN  <<m>> \o SortedPaths(S \ {m})

\* a variant that puts x before the items of equal key (not stable)
InsertPositionUnstable(sorted, x) ==
    Cardinality({ j \in 1..Len(sorted) : sorted[j].cardinality > x.cardinality })

\* where list.sort(key=cardinality, reverse=True) puts x among the items
\* already in order: after every item whose key is >= x's (stable)
InsertPosition(sorted, x) ==
    Cardinality({ j \in 1..Len(sorted) : sorted[j].cardinality >= x.cardinality })

InsertDesc(sorted, x) ==
    LET p == InsertPosition(sorted, x)
    IN  SubSeq(sorted, 1, p) \o <<x>> \o SubSeq(sorted, p + 1, Len(sorted))

\* genome_data.sort(key=lambda x: x[2], reverse=True)
RECURSIVE SortDesc(_)
SortDesc(s) ==
    IF Len(s) = 0 THEN <<>>
    ELSE InsertDesc(SortDesc(SubSeq(s, 1, Len(s) - 1)), s[Len(s)])

\* a variant that seeds one bin too few
SeedCountShort(n, len) == Max(Min(n, len) - 1, 0)

\* range(min(numbins, len(genome_data))): the number of seed iterations
SeedCount(n, len) == Max(Min(n, len), 0)

\* genome_data[numbins:]: the 0-based index the slice starts at
SliceStart(n, len) == IF n >= 0 THEN Min(n, len) ELSE Max(len + n, 0)

\* min(bin_cardinalities) of a non-empty list
RECURSIVE ListMin(_)
ListMin(cards) ==
    IF Len(cards) = 1 THEN cards[1]
    ELSE Min(Head(cards), ListMin(Tail(cards)))

\* list.index(v), 1-based: the position of the first element equal to v
RECURSIVE IndexOf(_, _)
IndexOf(cards, v) ==
    IF Head(cards) = v THEN 1 ELSE 1 + IndexOf(Tail(cards), v)

\* a variant that takes the last bin of minimal cardinality
MinBinIndexLast(cards) ==
    CHOOSE k \in 1..Len(cards) :
        /\ cards[k] = ListMin(cards)
        /\ \A j \in (k + 1)..Len(cards) : cards[j] # cards[k]

\* bin_cardinalities.index(min(bin_cardinalities)), 1-based
MinBinIndex(cards) == IndexOf(cards, ListMin(cards))

\* os.path.join(bin_dir, f"bin_{i}.hll") for the 0-based bin i
BinPath(i) == <<"bin", i>>
tmp_union_sketch == <<"tmp_union_sketch", 0>>

\* a variant in which the exit status is not checked (check=False)
PcAfterFailureIgnored(next) == next

\* the pc a subprocess.run(..., check=True) that fails leaves the run at:
\* CalledProcessError propagates out of greedy_partitioning and __main__
PcAfterFailure(next) == "aborted"

(***************************************************************************)
(* State.                                                                  *)
(***************************************************************************)
VARIABLES
    numbins,            \* int(sys.argv[1])
    files,              \* the sketch directory: file name -> sketch it holds
    pc,                 \* where the run is
    dirs,               \* directories created by os.makedirs
    genome_sketches,    \* the sorted list of sketch paths
    genome_data,        \* list of (name, sketch, cardinality)
    bin_result,         \* list of lists of genome names
    bin_cardinalities,  \* list of bin cardinalities
    bin_paths,          \* list of bin sketch paths
    fs,                 \* the files of bin_dir: path -> sketch
    i,                  \* seed loop: number of bins seeded
    g,                  \* greedy loop: 1-based position in genome_data
    output,             \* the bin assignment file: whether written, its lines
    marker,             \* whether the completion marker exists
    error,              \* the exception that ended the run, or "none"
    calls,              \* history: the subprocess calls made, in order
    bin_members,        \* history: per bin, the sketch paths put into it
    key,                \* name extraction alone: the storage key
    name                \* name extraction alone: the name returned

vars == <<numbins, files, pc, dirs, genome_sketches, genome_data, bin_result,
          bin_cardinalities, bin_paths, fs, i, g, output, marker, error,
          calls, bin_members, key, name>>

NoFile == [written |-> FALSE, lines |-> <<>>]
MinBins == 0 - 1

OutputDir == <<"o", "u", "t", "p", "u", "t">>
CompletionDir == <<"t", "m", "p", "/", "c", "o", "m", "p", "l", "e", "t", "i", "o", "n">>

\* the directory contents the run may start from
Directories ==
    UNION { { f \in [S -> SketchPool \cup {Junk}] :
                \A n \in S : f[n] = Junk <=> ~MatchesHll(n) } :
              S \in SUBSET KeyPool }

\* the sketch stored at a path of the sketch directory
SketchAt(path) == files[basename(path)]

N == Len(genome_sketches)

Init ==
    /\ numbins \in MinBins..MaxBins
    /\ files \in Directories
    /\ pc = "main"
    /\ dirs = {}
    /\ genome_sketches = <<>>
    /\ genome_data = <<>>
    /\ bin_result = <<>>
    /\ bin_cardinalities = <<>>
    /\ bin_paths = <<>>
    /\ fs = <<>>
    /\ i = 0
    /\ g = 0
    /\ output = NoFile
    /\ marker = FALSE
    /\ error = "none"
    /\ calls = <<>>
    /\ bin_members = <<>>
    /\ key = <<>>
    /\ name = <<>>

(***************************************************************************)
(* __main__ up to the call of greedy_partitioning.                         *)
(***************************************************************************)
Main ==
    /\ pc = "main"
    /\ dirs' = dirs \cup {OutputDir, CompletionDir}
    /\ pc' = "call"
    /\ UNCHANGED <<numbins, files, genome_sketches, genome_data, bin_result,
                   bin_cardinalities, bin_paths, fs, i, g, output, marker,
                   error, calls, bin_members, key, name>>

(***************************************************************************)
(* greedy_partitioning: makedirs, the listing, the early return for an     *)
(* empty listing, the initialisation of the bins.                          *)
(***************************************************************************)
Begin ==
    /\ pc = "call"
    /\ dirs' = dirs \cup {bin_dir}
    /\ genome_sketches' = SortedPaths(Glob(files))
    /\ IF Len(genome_sketches') = 0
       THEN /\ pc' = "returned"
            /\ UNCHANGED <<bin_result, bin_cardinalities, bin_paths, bin_members>>
       ELSE /\ pc' = "catalog"
            /\ bin_result' = [k \in 1..Max(numbins, 0) |-> <<>>]
            /\ bin_cardinalities' = [k \in 1..Max(numbins, 0) |-> 0]
            /\ bin_paths' = [k \in 1..Max(numbins, 0) |-> BinPath(k - 1)]
            /\ bin_members' = [k \in 1..Max(numbins, 0) |-> <<>>]
    /\ UNCHANGED <<numbins, files, genome_data, fs, i, g, output, marker,
                   error, calls, key, name>>

\* fs with the file at path q holding sketch v
WriteFile(f, q, v) == [p \in (DOMAIN f) \cup {q} |-> IF p = q THEN v ELSE f[p]]

(***************************************************************************)
(* One iteration of the loop that fills genome_data.                       *)
(***************************************************************************)
CatalogNextPc == IF Len(genome_data) + 1 = N THEN "sort" ELSE "catalog"

Catalog ==
    /\ pc = "catalog"
    /\ LET sketch == genome_sketches[Len(genome_data) + 1]
       IN  /\ genome_data' = Append(genome_data,
                                [name |-> extract_genome_name(sketch),
                                 sketch |-> sketch,
                                 cardinality |-> estimate(SketchAt(sketch))])
           /\ calls' = Append(calls, <<"card", sketch>>)
    /\ pc' = CatalogNextPc
    /\ UNCHANGED <<numbins, files, dirs, genome_sketches, bin_result,
                   bin_cardinalities, bin_paths, fs, i, g, output, marker,
                   error, bin_members, key, name>>

\* get_cardinality raises: dashing card fails, or its output is no number
CatalogFail ==
    /\ pc = "catalog"
    /\ calls' = Append(calls, <<"card", genome_sketches[Len(genome_data) + 1]>>)
    /\ error' = "CalledProcessError"
    /\ pc' = PcAfterFailure(CatalogNextPc)
    /\ UNCHANGED <<numbins, files, dirs, genome_sketches, genome_data,
                   bin_result, bin_cardinalities, bin_paths, fs, i, g, output,
                   marker, bin_members, key, name>>

\* the pc after the seed loop: the greedy loop, or the return when
\* genome_data[numbins:] is empty
GreedyEntryPc == IF SliceStart(numbins, N) + 1 > N THEN "returned" ELSE "greedy"

(***************************************************************************)
(* The sort, and the entry of the seed loop.                               *)
(***************************************************************************)
SortData ==
    /\ pc = "sort"
    /\ genome_data' = SortDesc(genome_data)
    /\ i' = 0
    /\ g' = SliceStart(numbins, N) + 1
    /\ pc' = IF SeedCount(numbins, N) > 0 THEN "seed" ELSE GreedyEntryPc
    /\ UNCHANGED <<numbins, files, dirs, genome_sketches, bin_result,
                   bin_cardinalities, bin_paths, fs, output, marker, error,
                   calls, bin_members, key, name>>

(***************************************************************************)
(* One iteration of the seed loop.                                         *)
(***************************************************************************)
SeedNextPc == IF i + 1 < SeedCount(numbins, N) THEN "seed" ELSE GreedyEntryPc

Seed ==
    /\ pc = "seed"
    /\ LET item == genome_data[i + 1]
       IN  /\ bin_result' = [bin_result EXCEPT ![i + 1] = Append(@, item.name)]
           /\ bin_cardinalities' = [bin_cardinalities EXCEPT ![i + 1] = item.cardinality]
           /\ fs' = WriteFile(fs, bin_paths[i + 1], SketchAt(item.sketch))
           /\ calls' = Append(calls, <<"cp", item.sketch, bin_paths[i + 1]>>)
           /\ bin_members' = [bin_members EXCEPT ![i + 1] = Append(@, item.sketch)]
    /\ i' = i + 1
    /\ pc' = SeedNextPc
    /\ UNCHANGED <<numbins, files, dirs, genome_sketches, genome_data,
                   bin_paths, g, output, marker, error, key, name>>

\* cp fails: the name and the cardinality are already recorded
SeedFail ==
    /\ pc = "seed"
    /\ LET item == genome_data[i + 1]
       IN  /\ bin_result' = [bin_result EXCEPT ![i + 1] = Append(@, item.name)]
           /\ bin_cardinalities' = [bin_cardinalities EXCEPT ![i + 1] = item.cardinality]
           /\ calls' = Append(calls, <<"cp", item.sketch, bin_paths[i + 1]>>)
    /\ error' = "CalledProcessError"
    /\ pc' = PcAfterFailure(SeedNextPc)
    /\ UNCHANGED <<numbins, files, dirs, genome_sketches, genome_data,
                   bin_paths, fs, i, g, output, marker, bin_members, key, name>>

(***************************************************************************)
(* One iteration of the greedy loop: union into the temporary file, mv     *)
(* over the bin's sketch, append the name, re-estimate the bin.            *)
(***************************************************************************)
GreedyNextPc == IF g = N THEN "returned" ELSE "greedy"

\* a variant that adds the item's cardinality to the bin's
NewBinCardinalityBySum(binSketch, oldCardinality, itemCardinality) ==
    oldCardinality + itemCardinality

\* the cardinality recorded for the bin after the merge (line 98)
NewBinCardinality(binSketch, oldCardinality, itemCardinality) ==
    estimate(binSketch)

UnionCall(k, item) == <<"union", bin_paths[k], item.sketch, tmp_union_sketch>>
MoveCall(k) == <<"mv", tmp_union_sketch, bin_paths[k]>>
CardCall(k) == <<"card", bin_paths[k]>>

Greedy ==
    /\ pc = "greedy"
    /\ Len(bin_cardinalities) > 0
    /\ LET item == genome_data[g]
           k == MinBinIndex(bin_cardinalities)
           merged == merge(fs[bin_paths[k]], SketchAt(item.sketch))
       IN  /\ fs' = WriteFile(fs, bin_paths[k], merged)
           /\ bin_result' = [bin_result EXCEPT ![k] = Append(@, item.name)]
           /\ bin_cardinalities' =
                  [bin_cardinalities EXCEPT
                      ![k] = NewBinCardinality(merged, @, item.cardinality)]
           /\ calls' = calls \o <<UnionCall(k, item), MoveCall(k), CardCall(k)>>
           /\ bin_members' = [bin_members EXCEPT ![k] = Append(@, item.sketch)]
    /\ g' = g + 1
    /\ pc' = GreedyNextPc
    /\ UNCHANGED <<numbins, files, dirs, genome_sketches, genome_data,
                   bin_paths, i, output, marker, error, key, name>>

\* dashing union fails
GreedyUnionFail ==
    /\ pc = "greedy"
    /\ Len(bin_cardinalities) > 0
    /\ LET item == genome_data[g]
           k == MinBinIndex(bin_cardinalities)
       IN  calls' = calls \o <<UnionCall(k, item)>>
    /\ error' = "CalledProcessError"
    /\ pc' = PcAfterFailure(GreedyNextPc)
    /\ UNCHANGED <<numbins, files, dirs, genome_sketches, genome_data,
                   bin_result, bin_cardinalities, bin_paths, fs, i, g, output,
                   marker, bin_members, key, name>>

\* mv fails: the union stays in the temporary file
GreedyMoveFail ==
    /\ pc = "greedy"
    /\ Len(bin_cardinalities) > 0
    /\ LET item == genome_data[g]
           k == MinBinIndex(bin_cardinalities)
           merged == merge(fs[bin_paths[k]], SketchAt(item.sketch))
       IN  /\ fs' = WriteFile(fs, tmp_union_sketch, merged)
           /\ calls' = calls \o <<UnionCall(k, item), MoveCall(k)>>
    /\ error' = "CalledProcessError"
    /\ pc' = PcAfterFailure(GreedyNextPc)
    /\ UNCHANGED <<numbins, files, dirs, genome_sketches, genome_data,
                   bin_result, bin_cardinalities, bin_paths, i, g, output,
                   marker, bin_members, key, name>>

\* the re-estimate of the bin fails: the bin's sketch and members are
\* already updated, its cardinality is not
GreedyCardFail ==
    /\ pc = "greedy"
    /\ Len(bin_cardinalities) > 0
    /\ LET item == genome_data[g]
           k == MinBinIndex(bin_cardinalities)
           merged == merge(fs[bin_paths[k]], SketchAt(item.sketch))
       IN  /\ fs' = WriteFile(fs, bin_paths[k], merged)
           /\ bin_result' = [bin_result EXCEPT ![k] = Append(@, item.name)]
           /\ calls' = calls \o <<UnionCall(k, item), MoveCall(k), CardCall(k)>>
           /\ bin_members' = [bin_members EXCEPT ![k] = Append(@, item.sketch)]
    /\ error' = "CalledProcessError"
    /\ pc' = PcAfterFailure(GreedyNextPc)
    /\ UNCHANGED <<numbins, files, dirs, genome_sketches, genome_data,
                   bin_cardinalities, bin_paths, i, g, output, marker, key, name>>

\* min() of an empty list: numbins <= 0 with at least one sketch
GreedyNoBins ==
    /\ pc = "greedy"
    /\ Len(bin_cardinalities) = 0
    /\ error' = "ValueError"
    /\ pc' = "aborted"
    /\ UNCHANGED <<numbins, files, dirs, genome_sketches, genome_data,
                   bin_result, bin_cardinalities, bin_paths, fs, i, g, output,
                   marker, calls, bin_members, key, name>>

(***************************************************************************)
(* __main__ after the call: the assignment file, then the marker.          *)
(***************************************************************************)
\* zip(bins, cardinalities), enumerated from bin 0
OutputLines(bins, cardinalities) ==
    [b \in 1..Min(Len(bins), Len(cardinalities)) |->
        [bin |-> b - 1, content |-> bins[b], cardinality |-> cardinalities[b]]]

WriteOutput ==
    /\ pc = "returned"
    /\ output' = [written |-> TRUE,
                  lines |-> OutputLines(bin_result, bin_cardinalities)]
    /\ pc' = "written"
    /\ UNCHANGED <<numbins, files, dirs, genome_sketches, genome_data,
                   bin_result, bin_cardinalities, bin_paths, fs, i, g, marker,
                   error, calls, bin_members, key, name>>

WriteMarker ==
    /\ pc = "written"
    /\ marker' = TRUE
    /\ pc' = "done"
    /\ UNCHANGED <<numbins, files, dirs, genome_sketches, genome_data,
                   bin_result, bin_cardinalities, bin_paths, fs, i, g, output,
                   error, calls, bin_members, key, name>>

Next ==
    \/ Main
    \/ Begin
    \/ Catalog
    \/ CatalogFail
    \/ SortData
    \/ Seed
    \/ SeedFail
    \/ Greedy
    \/ GreedyUnionFail
    \/ GreedyMoveFail
    \/ GreedyCardFail
    \/ GreedyNoBins
    \/ WriteOutput
    \/ WriteMarker

Spec == Init /\ [][Next]_vars

(***************************************************************************)
(* Definitions shared by the properties.                                   *)
(***************************************************************************)
Returned == pc \in {"returned", "written", "done"}

RECURSIVE Flatten(_)
Flatten(lists) ==
    IF Len(lists) = 0 THEN <<>> ELSE Head(lists) \o Flatten(Tail(lists))

Range(s) == { s[j] : j \in 1..Len(s) }

\* the names of the items of the input
InputNames == { extract_genome_name(genome_sketches[j]) : j \in 1..N }

\* the sketch of the union of the items at these paths
UnionOf(paths) == UNION { SketchAt(paths[j]) : j \in 1..Len(paths) }

\* the cardinality recorded in genome_data for the item at a path
ItemCardinality(path) ==
    LET j == CHOOSE x \in 1..Len(genome_data) : genome_data[x].sketch = path
    IN  genome_data[j].cardinality

RECURSIVE SumCardinalities(_)
SumCardinalities(paths) ==
    IF Len(paths) = 0 THEN 0
    ELSE ItemCardinality(Head(paths)) + SumCardinalities(Tail(paths))

\* two of the items at these paths share content
Overlapping(paths) ==
    \E a, b \in 1..Len(paths) :
        a < b /\ SketchAt(paths[a]) \cap SketchAt(paths[b]) # {}

(***************************************************************************)
(* C1. Partition completeness: when greedy_partitioning has returned for   *)
(* numbins >= 1, the names in the bins are exactly the input names, each   *)
(* input item is in one bin, and no name occurs twice (in one bin or in    *)
(* two), also when storage keys reduce to the same name.                   *)
(***************************************************************************)
PartitionComplete ==
    (Returned /\ numbins >= 1) =>
        LET all == Flatten(bin_result)
        IN  /\ Range(all) = InputNames
            /\ Len(all) = N
            /\ \A a, b \in 1..Len(all) : a # b => all[a] # all[b]

(***************************************************************************)
(* C2. Empty input: with no sketch found and numbins >= 1, the function    *)
(* returns numbins bins, all empty and of cardinality 0, and the           *)
(* assignment file has numbins lines.                                      *)
(***************************************************************************)
EmptyInputBins ==
    (Returned /\ N = 0 /\ numbins >= 1) =>
        /\ Len(bin_result) = numbins
        /\ Len(bin_cardinalities) = numbins
        /\ \A k \in 1..Len(bin_result) : bin_result[k] = <<>>
        /\ \A k \in 1..Len(bin_cardinalities) : bin_cardinalities[k] = 0
        /\ output.written => Len(output.lines) = numbins

(***************************************************************************)
(* C3. numbins <= 0 is rejected with an invalid-argument error before any  *)
(* work: no directory is created, no subprocess is called, no bin state    *)
(* is built, nothing is written.                                           *)
(***************************************************************************)
NonPositiveRejected ==
    numbins <= 0 =>
        /\ dirs = {}
        /\ calls = <<>>
        /\ bin_result = <<>> /\ bin_cardinalities = <<>> /\ bin_paths = <<>>
        /\ ~output.written /\ ~marker
        /\ pc \in {"main", "aborted"}
        /\ pc = "aborted" => error = "InvalidArgument"

(***************************************************************************)
(* C4. A failing estimate, copy, move or merge aborts the run at once:     *)
(* the run is over (no step is enabled), and neither the assignment file   *)
(* nor the completion marker has been written.                             *)
(***************************************************************************)
FailureAborts ==
    error = "CalledProcessError" =>
        /\ pc = "aborted"
        /\ ~ENABLED Next
        /\ ~output.written
        /\ ~marker

\* a merge step failed at the re-estimate, leaving a bin of two members
FailureAbortsWitness ==
    /\ error = "CalledProcessError"
    /\ pc = "aborted"
    /\ \E k \in 1..Len(bin_members) : Len(bin_members[k]) >= 2

(***************************************************************************)
(* C5. During and after the seed phase and after every greedy step, the    *)
(* cardinality of a non-empty bin is the estimate of the bin's sketch,     *)
(* which is the merge of exactly its members' sketches; an empty bin has   *)
(* cardinality 0; with overlapping members the cardinality is strictly     *)
(* less than the sum of the members' cardinalities.                        *)
(***************************************************************************)
CardinalityConsistent ==
    (pc \in {"seed", "greedy"} \/ Returned) =>
        \A k \in 1..Len(bin_result) :
            /\ Len(bin_result[k]) = Len(bin_members[k])
            /\ \A j \in 1..Len(bin_members[k]) :
                   bin_result[k][j] = extract_genome_name(bin_members[k][j])
            /\ IF bin_members[k] = <<>>
               THEN bin_cardinalities[k] = 0
               ELSE /\ fs[bin_paths[k]] = UnionOf(bin_members[k])
                    /\ bin_cardinalities[k] = estimate(UnionOf(bin_members[k]))
                    /\ Overlapping(bin_members[k]) =>
                           bin_cardinalities[k] < SumCardinalities(bin_members[k])

\* a finished run with a bin of overlapping members
CardinalityConsistentWitness ==
    /\ pc = "done"
    /\ \E k \in 1..Len(bin_members) :
           /\ Len(bin_members[k]) >= 2
           /\ Overlapping(bin_members[k])
           /\ bin_cardinalities[k] < SumCardinalities(bin_members[k])

(***************************************************************************)
(* Name extraction alone: extract_genome_name applied, as in the loop      *)
(* that fills genome_data, to the path of a file of the sketch directory.  *)
(***************************************************************************)
KeyAlphabet == {".", "w", "f", "a", "x"}

\* the storage keys (file names) of length at most MaxKeyLen
Keys == UNION { [1..n -> KeyAlphabet] : n \in 0..MaxKeyLen }

InitName ==
    /\ key \in Keys
    /\ pc = "name"
    /\ name = <<>>
    /\ numbins = 1
    /\ files = <<>>
    /\ dirs = {}
    /\ genome_sketches = <<>>
    /\ genome_data = <<>>
    /\ bin_result = <<>>
    /\ bin_cardinalities = <<>>
    /\ bin_paths = <<>>
    /\ fs = <<>>
    /\ i = 0
    /\ g = 0
    /\ output = NoFile
    /\ marker = FALSE
    /\ error = "none"
    /\ calls = <<>>
    /\ bin_members = <<>>

ExtractName ==
    /\ pc = "name"
    /\ name' = extract_genome_name(PathJoin(sketches_dir, key))
    /\ pc' = "named"
    /\ UNCHANGED <<numbins, files, dirs, genome_sketches, genome_data,
                   bin_result, bin_cardinalities, bin_paths, fs, i, g, output,
                   marker, error, calls, bin_members, key>>

NextName == ExtractName

SpecName == InitName /\ [][NextName]_vars

\* positions a..b of k hold one dot-delimited token of k (b = a - 1 for an
\* empty token)
IsToken(k, a, b) ==
    /\ a \in 1..(Len(k) + 1)
    /\ b \in (a - 1)..Len(k)
    /\ a = 1 \/ k[a - 1] = "."
    /\ b = Len(k) \/ k[b + 1] = "."
    /\ \A j \in a..b : k[j] # "."

TokenStarts(k) == { a \in 1..(Len(k) + 1) : \E b \in (a - 1)..Len(k) : IsToken(k, a, b) }

TokenAt(k, a) ==
    LET b == CHOOSE x \in (a - 1)..Len(k) : IsToken(k, a, x)
    IN  SubSeq(k, a, b)

(***************************************************************************)
(* C6. The canonical name of a storage key is the key's first              *)
(* dot-delimited token that is not reserved; when every token is reserved  *)
(* it is the key itself. The extraction always returns.                    *)
(***************************************************************************)
CanonicalName ==
    pc = "named" =>
        LET free == { a \in TokenStarts(key) : TokenAt(key, a) \notin Reserved }
        IN  IF free = {}
            THEN name = key
            ELSE \E a \in free :
                     /\ \A c \in free : a <= c
                     /\ name = TokenAt(key, a)

\* a key with a reserved token, then an empty one, then a free one
CanonicalNameWitness ==
    /\ pc = "named"
    /\ key = <<"f", "a", ".", ".", "x">>
    /\ name = <<>>

\* a key whose tokens are all reserved
CanonicalNameFallbackWitness ==
    /\ pc = "named"
    /\ key = <<"w", ".", "f", "a">>
    /\ name = key

\* a completed greedy step that puts the item into bin k
GreedyStepAt(k) ==
    /\ \A j \in 1..Len(bin_cardinalities) : bin_cardinalities[k] <= bin_cardinalities[j]
    /\ \A j \in 1..(k - 1) : bin_cardinalities[j] > bin_cardinalities[k]
    /\ bin_result'[k] = Append(bin_result[k], genome_data[g].name)
    /\ fs'[bin_paths[k]] = fs[bin_paths[k]] \cup SketchAt(genome_data[g].sketch)
    /\ bin_cardinalities'[k] = estimate(fs'[bin_paths[k]])
    /\ \A j \in 1..Len(bin_cardinalities) :
           j # k => /\ bin_result'[j] = bin_result[j]
                    /\ bin_cardinalities'[j] = bin_cardinalities[j]
                    /\ fs'[bin_paths[j]] = fs[bin_paths[j]]

(***************************************************************************)
(* C7. A greedy step that completes puts the item into the bin of minimal  *)
(* cardinality, the lowest-numbered one among those of minimal             *)
(* cardinality: that bin's sketch is merged with the item's, the name is   *)
(* appended to its members; no other bin changes.                          *)
(***************************************************************************)
GreedyPicksMinBin ==
    [][(pc = "greedy" /\ pc' \in {"greedy", "returned"}) =>
          /\ Len(bin_cardinalities) = numbins
          /\ Len(bin_cardinalities') = numbins
          /\ \E k \in 1..numbins : GreedyStepAt(k)]_vars

\* two bins were seeded with equal cardinalities and the third item went
\* to the first of them
GreedyPicksMinBinWitness ==
    /\ pc = "done"
    /\ numbins = 2
    /\ N = 3
    /\ genome_data[1].cardinality = genome_data[2].cardinality
    /\ genome_data[3].cardinality > 0
    /\ Len(bin_result[1]) = 2
    /\ Len(bin_result[2]) = 1

\* the subprocess calls that name a bin's sketch as operand of card
BinCardCalls == { c \in 1..Len(calls) : calls[c][1] = "card" /\ calls[c][2] \in Range(bin_paths) }
UnionCalls == { c \in 1..Len(calls) : calls[c][1] = "union" }

(***************************************************************************)
(* C8. Seed-phase exactness: with 1 <= N <= numbins the run makes no merge *)
(* and no estimate of a bin; bin i < N holds exactly the i-th item of the  *)
(* sorted list, with that item's cardinality; the bins from N on are empty *)
(* with cardinality 0.                                                     *)
(***************************************************************************)
SeedExact ==
    (Returned /\ 1 <= N /\ N <= numbins) =>
        /\ UnionCalls = {}
        /\ BinCardCalls = {}
        /\ Len(bin_result) = numbins
        /\ Len(bin_cardinalities) = numbins
        /\ \A k \in 1..N :
               /\ bin_result[k] = <<genome_data[k].name>>
               /\ bin_members[k] = <<genome_data[k].sketch>>
               /\ bin_cardinalities[k] = genome_data[k].cardinality
               /\ fs[bin_paths[k]] = SketchAt(genome_data[k].sketch)
        /\ \A k \in (N + 1)..numbins :
               /\ bin_result[k] = <<>>
               /\ bin_cardinalities[k] = 0
               /\ bin_paths[k] \notin DOMAIN fs

\* as many items as bins, and fewer items than bins
SeedExactWitness ==
    /\ pc = "done"
    /\ N = 2
    /\ numbins = 2
    /\ bin_cardinalities[1] > bin_cardinalities[2]

SeedExactFewerWitness ==
    /\ pc = "done"
    /\ N = 2
    /\ numbins = 3
    /\ bin_result[3] = <<>>

\* history of assignment: the sketches copied or merged into bins, in the
\* order of the calls
RECURSIVE AssignedIn(_)
AssignedIn(cs) ==
    IF Len(cs) = 0 THEN <<>>
    ELSE LET c == Head(cs)
         IN  (IF c[1] = "cp" THEN <<c[2]>>
              ELSE IF c[1] = "union" THEN <<c[3]>>
              ELSE <<>>) \o AssignedIn(Tail(cs))

Assigned == AssignedIn(calls)

(***************************************************************************)
(* C9. Items are assigned in order of non-increasing cardinality, and      *)
(* items of equal cardinality in the lexicographic order of their storage  *)
(* keys; each item is assigned at most once, and a run that returns with   *)
(* numbins >= 1 has assigned every item: the order of assignment is fixed  *)
(* by the input.                                                           *)
(***************************************************************************)
AssignmentOrder ==
    /\ \A a, b \in 1..Len(Assigned) :
           a < b =>
               \/ ItemCardinality(Assigned[a]) > ItemCardinality(Assigned[b])
               \/ /\ ItemCardinality(Assigned[a]) = ItemCardinality(Assigned[b])
                  /\ StrLess(basename(Assigned[a]), basename(Assigned[b]))
    /\ (Returned /\ numbins >= 1) => Range(Assigned) = Range(genome_sketches)

\* three items, two of them of equal cardinality, all assigned
AssignmentOrderWitness ==
    /\ pc = "done"
    /\ numbins = 2
    /\ Len(Assigned) = 3
    /\ \E a, b \in 1..3 :
           a < b /\ ItemCardinality(Assigned[a]) = ItemCardinality(Assigned[b])

\* no two items of the input share content
NonOverlapping ==
    \A a, b \in 1..N :
        a < b => SketchAt(genome_sketches[a]) \cap SketchAt(genome_sketches[b]) = {}

\* the bin holding the j-th item of the sorted list
BinOf(j) ==
    CHOOSE k \in 1..Len(bin_members) : genome_data[j].sketch \in Range(bin_members[k])

\* scalar loads of the bins after the first j items of the sorted list
\* were added, by plain addition, to the bins that hold them
RECURSIVE LoadsAfter(_)
LoadsAfter(j) ==
    IF j = 0 THEN [k \in 1..numbins |-> 0]
    ELSE [LoadsAfter(j - 1) EXCEPT ![BinOf(j)] = @ + genome_data[j].cardinality]

\* the cardinalities of the members of bin k, in member order
MemberCardinalities(k) ==
    [j \in 1..Len(bin_members[k]) |-> ItemCardinality(bin_members[k][j])]

(***************************************************************************)
(* C10. With pairwise non-overlapping items the result is that of          *)
(* largest-first greedy number partitioning on the cardinalities: every    *)
(* item is in a bin whose sum was minimal when the item was placed (the    *)
(* lowest-numbered such bin, for an item of positive cardinality), and a   *)
(* bin's cardinality is the sum of its members' cardinalities. For two     *)
(* bins and cardinalities 100, 90, 50, 10: bin 0 = {100, 10} with 110 and  *)
(* bin 1 = {90, 50} with 140.                                              *)
(***************************************************************************)
MatchesLPT ==
    (Returned /\ numbins >= 1 /\ N >= 1 /\ NonOverlapping) =>
        /\ \A j \in 1..N :
               LET loads == LoadsAfter(j - 1)
                   b == BinOf(j)
               IN  /\ \E k \in 1..numbins : genome_data[j].sketch \in Range(bin_members[k])
                   /\ \A k \in 1..numbins : loads[b] <= loads[k]
                   /\ genome_data[j].cardinality > 0 =>
                          \A k \in 1..(b - 1) : loads[k] > loads[b]
        /\ LoadsAfter(N) = bin_cardinalities
        /\ (numbins = 2 /\ [j \in 1..N |-> genome_data[j].cardinality] = <<100, 90, 50, 10>>) =>
               /\ bin_cardinalities = <<110, 140>>
               /\ MemberCardinalities(1) = <<100, 10>>
               /\ MemberCardinalities(2) = <<90, 50>>

\* the scenario of cardinalities 100, 90, 50, 10 in two bins, finished
MatchesLPTWitness ==
    /\ pc = "done"
    /\ numbins = 2
    /\ NonOverlapping
    /\ [j \in 1..N |-> genome_data[j].cardinality] = <<100, 90, 50, 10>>
    /\ bin_cardinalities = <<110, 140>>

====
